---- MODULE Spec2Model ----
(***************************************************************************)
(* The MySQL -> BigQuery table-sync scripts as one state machine.          *)
(*                                                                         *)
(*   variant = "mysql"  src/etl_mysql_to_bigquery.py  (incremental, today) *)
(*   variant = "hist"   src/etl_daily_log.py          (historical backfill)*)
(*   variant = "inv"    src/ti_db_inventory_to_BQ.py  (--daily or full)    *)
(*                                                                         *)
(* Dates are day numbers (days of the year 2025); the clock `now` counts   *)
(* whole days.  strftime('%Y-%m-%d') followed by MySQL's DATE(col) <op>    *)
(* '<text>' compares calendar dates, which is the comparison of the day    *)
(* numbers.                                                                *)
(***************************************************************************)
EXTENDS Integers, Sequences, FiniteSets, TLC

VARIABLES
    variant,        \* which of the three scripts runs
    is_daily,       \* args.daily (ti_db_inventory_to_BQ.py only)
    schema_config,  \* keys of the schema JSON loaded at import
    srcTables,      \* names of the BASE TABLEs of the MySQL database
    srcViews,       \* names of the VIEWs of the MySQL database
    now,            \* datetime.now(), in days
    run_date,       \* CURRENT_DATE, set when the process starts
    pc,             \* position of run_etl
    tables,         \* run_etl's `tables`
    idx,            \* index in `tables` of the table being processed
    df,             \* run_etl's `df`
    warehouse,      \* rows of each BigQuery table
    files,          \* the filesystem: DUMPS_DIR and tempfile.gettempdir()
    ops,            \* history: the external calls issued so far, in order
    extracts,       \* history: one record per completed pd.read_sql
    sweeps          \* history: one record per cleanup_old_files call

vars == <<variant, is_daily, schema_config, srcTables, srcViews, now, run_date, pc,
          tables, idx, df, warehouse, files, ops, extracts, sweeps>>

----------------------------------------------------------------------------
(* Bounds and constants *)

MaxTicks == 1        \* how many midnights may pass during one run
MaxViews == 1        \* how many views the source database holds
MaxCols == 2         \* columns of a batch handed to transform_data directly

CutoffDate == 66     \* '2025-03-07' as a day of 2025
RetentionDays == 7   \* timedelta(days=7)

StartDay == CutoffDate + 1   \* the day the process starts (CURRENT_DATE)

Variants == {"mysql", "hist", "inv"}
TableNames == {"backup_log", "daily_log", "database_list", "servers_temp"}

\* The dates the rows of the source store carry.
RowDates == (CutoffDate - 1) .. (StartDay + MaxTicks)
\* What a table of the source store may hold when it is queried.
SourceData == {{}, {CutoffDate}, RowDates}

----------------------------------------------------------------------------
(* Small helpers *)

Ev(o, t, a) == [op |-> o, table |-> t, arg |-> a]

Range(s) == {s[i] : i \in DOMAIN s}

Orders(S) == {s \in [1 .. Cardinality(S) -> S] : \A i, j \in DOMAIN s : i # j => s[i] # s[j]}

RECURSIVE SetToSortedSeq(_)
SetToSortedSeq(S) ==
    IF S = {} THEN <<>>
    ELSE LET m == CHOOSE x \in S : \A y \in S : x <= y
         IN <<m>> \o SetToSortedSeq(S \ {m})

----------------------------------------------------------------------------
(* Batches (pandas DataFrames): a sequence of columns, each a name and the *)
(* values of its rows.  A value is <<type, payload>>.                      *)

Col(n, vs) == [name |-> n, vals |-> vs]

\* DataFrame.empty: no columns, or no rows.
IsEmpty(d) == Len(d) = 0 \/ Len(d[1].vals) = 0

NumRows(d) == IF Len(d) = 0 THEN 0 ELSE Len(d[1].vals)

Rows(d) == [i \in 1 .. NumRows(d) |-> [c \in 1 .. Len(d) |-> d[c].vals[i]]]

\* Series.astype(bool): zero, the empty string and False become False.
AsTypeBool(v) == <<"bool", IF v[2] = 0 THEN 0 ELSE 1>>

\* Series.dt.strftime('%Y-%m-%d %H:%M:%S') on the datetime64 columns.
StrfTime(v) == IF v[1] = "datetime" THEN <<"str", v[2]>> ELSE v

----------------------------------------------------------------------------
(* SchemaRegistry and TableCatalog *)

\* get_schema_from_config: TRUE when the lookup raises ValueError.
SchemaMissing(t) == t \notin schema_config

\* The rows of SHOW FULL TABLES WHERE Table_type = <type>.
ShowFullTables(type) ==
    CASE type = "BASE TABLE" -> srcTables
      [] type = "VIEW" -> srcViews
      [] OTHER -> {}

\* get_mysql_tables' allowed_tables.
AllowedTables ==
    IF variant = "mysql" THEN schema_config
    ELSE {"backup_log", "daily_log", "servers_temp"}

\* get_mysql_tables without the allowed_tables filter.
get_mysql_tables_unfiltered(result) == result

\* tables = [row[0] for row in result if row[0] in allowed_tables]
get_mysql_tables(result) == SelectSeq(result, LAMBDA n : n \in AllowedTables)

----------------------------------------------------------------------------
(* Extractor *)

\* run_etl's date_column (etl_mysql_to_bigquery.py); the other scripts name
\* backup_date in the query text.
DateColumn(t) ==
    IF variant = "mysql" /\ t = "database_list" THEN "creation_date" ELSE "backup_date"

NoWindow == [column |-> "", cmp |-> "none", day |-> 0]

\* The WHERE clause of the query extract_from_mysql builds for table t.
Query(t) ==
    CASE variant = "mysql" ->
            [column |-> DateColumn(t), cmp |-> "=", day |-> now]
      [] variant = "hist" ->
            [column |-> "backup_date", cmp |-> "<", day |-> CutoffDate]
      [] OTHER ->
            IF is_daily /\ t \in {"backup_log", "daily_log"}
            THEN [column |-> "backup_date", cmp |-> "=", day |-> now - 1]
            ELSE NoWindow

\* The WHERE clause with <= for <.
SelectInclusive(q, data) ==
    {d \in data : \/ q.cmp = "none"
                  \/ q.cmp = "=" /\ d = q.day
                  \/ q.cmp = "<" /\ d <= q.day}

\* MySQL's evaluation of the WHERE clause over the rows of the table.
Select(q, data) ==
    {d \in data : \/ q.cmp = "none"
                  \/ q.cmp = "=" /\ d = q.day
                  \/ q.cmp = "<" /\ d < q.day}

\* The columns of each source table (two per table are enough here): the
\* first is its date column, the second an integer column.
SourceColumns(t) ==
    CASE t = "daily_log" -> <<"backup_date", "size">>
      [] t = "backup_log" -> <<"backup_date", "server">>
      [] OTHER -> <<"creation_date", "active">>

\* pd.read_sql followed by the strftime loop: the batch of the selected rows.
extract_from_mysql(t, data) ==
    LET dates == SetToSortedSeq(Select(Query(t), data))
        cols == SourceColumns(t)
    IN << Col(cols[1], [i \in DOMAIN dates |-> StrfTime(<<"datetime", dates[i]>>)]),
          Col(cols[2], [i \in DOMAIN dates |-> StrfTime(<<"int", dates[i] % 2>>)]) >>

----------------------------------------------------------------------------
(* Transformer *)

bool_columns == {"sun", "mon", "tue", "wed", "thu", "fri", "sat",
                 "encrypted", "ssl", "backup", "load", "size", "active"}

\* The table whose bool_columns are coerced.
BoolTable ==
    CASE variant = "mysql" -> "database_list"
      [] variant = "inv" -> "servers_temp"
      [] OTHER -> "none"

\* The columns= mapping of df.rename.
RenameMap ==
    [old \in {"backup_date", "server", "database", "size", "state", "last_update"}
              \cup (IF variant = "inv" THEN {} ELSE {"fileName"}) |->
        CASE old = "backup_date" -> "BackupDate"
          [] old = "server" -> "Server"
          [] old = "database" -> "Database"
          [] old = "size" -> "Size"
          [] old = "state" -> "State"
          [] old = "last_update" -> "LastUpdate"
          [] OTHER -> "FileName"]

\* DataFrame.rename(columns=m): labels that are not keys of m are kept, keys
\* of m that are not labels are ignored.
Rename(d, m) ==
    [i \in DOMAIN d |->
        Col(IF d[i].name \in DOMAIN m THEN m[d[i].name] ELSE d[i].name, d[i].vals)]

\* DataFrame.drop with the default errors='raise', whatever is passed.
DropRaises(d, names, ignoreErrors) ==
    [df |-> SelectSeq(d, LAMBDA c : c.name \notin names),
     raised |-> \E n \in names : \A i \in DOMAIN d : d[i].name # n]

\* DataFrame.drop(columns=names, errors=...): the batch, and whether KeyError
\* is raised (errors='raise' and a label is absent).
Drop(d, names, ignoreErrors) ==
    [df |-> SelectSeq(d, LAMBDA c : c.name \notin names),
     raised |-> ~ignoreErrors /\ \E n \in names : \A i \in DOMAIN d : d[i].name # n]

\* for col in bool_columns: if col in df.columns: df[col] = df[col].astype(bool)
CoerceBool(d) ==
    [i \in DOMAIN d |->
        IF d[i].name \in bool_columns
        THEN Col(d[i].name, [k \in DOMAIN d[i].vals |-> AsTypeBool(d[i].vals[k])])
        ELSE d[i]]

\* transform_data(df, table_name): the returned batch, and whether it raised.
\* (etl_daily_log.py's transform_data(df) is called with table daily_log only.)
transform_data(d, t) ==
    LET d1 == IF t = BoolTable THEN CoerceBool(d) ELSE d
    IN IF t = "daily_log"
       THEN IF variant = "inv"
            THEN Drop(Rename(d1, RenameMap), {"fileName"}, TRUE)
            ELSE [df |-> Rename(d1, RenameMap), raised |-> FALSE]
       ELSE [df |-> d1, raised |-> FALSE]

----------------------------------------------------------------------------
(* Staging filesystem.  A file is its path (directory, stem, leading dot,  *)
(* extension), its modification time and whether os.remove on it fails (a  *)
(* directory, an immutable file).  A stem is <<prefix, date, table>>.      *)

File(dir, stem, dot, ext, mtime, locked) ==
    [dir |-> dir, stem |-> stem, dot |-> dot, ext |-> ext, mtime |-> mtime, locked |-> locked]

SamePath(f, g) == f.dir = g.dir /\ f.stem = g.stem /\ f.dot = g.dot /\ f.ext = g.ext

\* open(path, 'w') and the write: the file exists afterwards, modified now.
WriteFile(fs, f) == {g \in fs : ~SamePath(f, g)} \cup {f}

\* os.remove(path)
RemoveFile(fs, f) == {g \in fs : ~SamePath(f, g)}

\* glob.glob(os.path.join(dir, "*.<ext>")): `*` matches no leading dot.
Glob(fs, dir, ext) == {f \in fs : f.dir = dir /\ f.ext = ext /\ ~f.dot}

----------------------------------------------------------------------------
(* Loader *)

\* The dispositions of the daily flag the wrong way round.
WriteDispositionSwapped ==
    CASE variant = "mysql" -> "WRITE_APPEND"
      [] variant = "hist" -> "WRITE_TRUNCATE"
      [] OTHER -> IF is_daily THEN "WRITE_TRUNCATE" ELSE "WRITE_APPEND"

\* job_config.write_disposition
WriteDisposition ==
    CASE variant = "mysql" -> "WRITE_APPEND"
      [] variant = "hist" -> "WRITE_TRUNCATE"
      [] OTHER -> IF is_daily THEN "WRITE_APPEND" ELSE "WRITE_TRUNCATE"

\* The staging artifact of table t: temp_file_path, or the NamedTemporaryFile.
Artifact(t) ==
    CASE variant = "mysql" ->
            File("tmp", <<"mysql_to_bq", run_date, t>>, FALSE, "json", now, FALSE)
      [] variant = "hist" ->
            File("tmp", <<"mysql_to_bq_historical", run_date, t>>, FALSE, "json", now, FALSE)
      [] OTHER ->
            File("tmp", <<"tmp", 0, t>>, FALSE, "json", now, FALSE)

\* The warehouse's effect of a completed load job.
Committed(t, d, disposition) ==
    [warehouse EXCEPT ![t] = IF disposition = "WRITE_APPEND" THEN @ \o Rows(d) ELSE Rows(d)]

\* Where load_to_bigquery may raise, besides the schema lookup.
LoadOutcomes == {"ok", "job_error", "remove_error", "count_error"}

\* Whether load_to_bigquery returns at once on an empty batch.
SkipsEmpty(d) == variant # "inv" /\ IsEmpty(d)

\* load_to_bigquery removing the temporary file before job.result() is
\* awaited instead of after it.
load_to_bigquery_removes_early(d, t, outcome) ==
    LET a == Artifact(t)
        disp == WriteDisposition
        e1 == << Ev("schema", t, "") >>
        e2 == e1 \o << Ev("artifact", t, ""), Ev("submit", t, disp) >>
        gone == RemoveFile(WriteFile(files, a), a)
    IN CASE SkipsEmpty(d) ->
              [events |-> <<>>, files |-> files, warehouse |-> warehouse, raised |-> FALSE]
         [] ~SkipsEmpty(d) /\ SchemaMissing(t) ->
              [events |-> e1, files |-> files, warehouse |-> warehouse, raised |-> TRUE]
         [] OTHER ->
              CASE outcome = "job_error" ->
                     [events |-> e2 \o << Ev("remove", t, "ok"), Ev("await", t, "error") >>,
                      files |-> gone, warehouse |-> warehouse, raised |-> TRUE]
                [] outcome = "remove_error" ->
                     [events |-> e2 \o << Ev("remove", t, "error") >>,
                      files |-> WriteFile(files, a), warehouse |-> warehouse, raised |-> TRUE]
                [] outcome = "count_error" ->
                     [events |-> e2 \o << Ev("remove", t, "ok"), Ev("await", t, "done"),
                                          Ev("count", t, "error") >>,
                      files |-> gone, warehouse |-> Committed(t, d, disp), raised |-> TRUE]
                [] OTHER ->
                     [events |-> e2 \o << Ev("remove", t, "ok"), Ev("await", t, "done"),
                                          Ev("count", t, "ok") >>,
                      files |-> gone, warehouse |-> Committed(t, d, disp), raised |-> FALSE]

\* load_to_bigquery(df, table_name): the calls it issues in order, the files
\* and the warehouse it leaves, and whether it raised.
load_to_bigquery(d, t, outcome) ==
    LET a == Artifact(t)
        disp == WriteDisposition
        e1 == << Ev("schema", t, "") >>
        e2 == e1 \o << Ev("artifact", t, ""), Ev("submit", t, disp) >>
    IN CASE SkipsEmpty(d) ->
              [events |-> <<>>, files |-> files, warehouse |-> warehouse, raised |-> FALSE]
         [] ~SkipsEmpty(d) /\ SchemaMissing(t) ->
              [events |-> e1, files |-> files, warehouse |-> warehouse, raised |-> TRUE]
         [] OTHER ->
              CASE outcome = "job_error" ->
                     [events |-> e2 \o << Ev("await", t, "error") >>,
                      files |-> WriteFile(files, a), warehouse |-> warehouse, raised |-> TRUE]
                [] outcome = "remove_error" ->
                     [events |-> e2 \o << Ev("await", t, "done"), Ev("remove", t, "error") >>,
                      files |-> WriteFile(files, a),
                      warehouse |-> Committed(t, d, disp), raised |-> TRUE]
                [] outcome = "count_error" ->
                     [events |-> e2 \o << Ev("await", t, "done"), Ev("remove", t, "ok"),
                                          Ev("count", t, "error") >>,
                      files |-> RemoveFile(WriteFile(files, a), a),
                      warehouse |-> Committed(t, d, disp), raised |-> TRUE]
                [] OTHER ->
                     [events |-> e2 \o << Ev("await", t, "done"), Ev("remove", t, "ok"),
                                          Ev("count", t, "ok") >>,
                      files |-> RemoveFile(WriteFile(files, a), a),
                      warehouse |-> Committed(t, d, disp), raised |-> FALSE]

----------------------------------------------------------------------------
(* StagingJanitor *)

\* The age test with >= for >.
IsOldInclusive(f, current_time) == current_time - f.mtime >= RetentionDays

\* (current_time - file_modified_time) > timedelta(days=7)
IsOld(f, current_time) == current_time - f.mtime > RetentionDays

\* The for loop of cleanup_old_files over json_files from position k on: the
\* first os.remove that raises ends the loop in the function's except clause.
RECURSIVE SweepFrom(_, _, _, _)
SweepFrom(json_files, k, fs, current_time) ==
    IF k > Len(json_files) THEN [files |-> fs, error |-> FALSE]
    ELSE LET f == json_files[k]
         IN IF IsOld(f, current_time)
            THEN IF f.locked THEN [files |-> fs, error |-> TRUE]
                 ELSE SweepFrom(json_files, k + 1, RemoveFile(fs, f), current_time)
            ELSE SweepFrom(json_files, k + 1, fs, current_time)

\* cleanup_old_files(), glob having listed json_files in this order.
cleanup_old_files(json_files) == SweepFrom(json_files, 1, files, now)

----------------------------------------------------------------------------
(* Orchestrator: run_etl, one action per stage of the table loop *)

\* run_etl without its emptiness test: every batch goes on to the loader.
ShouldLoadAlways(d) == TRUE

\* run_etl's `if not df.empty`.
ShouldLoad(d) == ~IsEmpty(d)

\* run_etl without its cleanup_old_files call.
HasJanitorNever == FALSE

\* Whether run_etl calls cleanup_old_files after the table loop.
HasJanitor == variant # "hist"

\* Where run_etl stands once table idx is finished.
AfterTable ==
    CASE idx < Len(tables) -> "extract"
      [] idx >= Len(tables) /\ HasJanitor -> "cleanup"
      [] OTHER -> "done"

AfterTableIdx == IF idx < Len(tables) THEN idx + 1 ELSE idx

\* What every warehouse table holds before the run: one row of one value.
PriorRows == << << <<"str", 0>> >> >>

Config == <<variant, is_daily, schema_config, srcTables, srcViews, run_date>>

InitRun ==
    /\ now = StartDay
    /\ run_date = StartDay
    /\ pc = IF variant = "hist" THEN "extract" ELSE "discover"
    /\ tables = IF variant = "hist" THEN <<"daily_log">> ELSE <<>>
    /\ idx = 1
    /\ df = <<>>
    /\ warehouse = [t \in TableNames |-> PriorRows]
    /\ ops = <<>>
    /\ extracts = <<>>
    /\ sweeps = <<>>

Init ==
    /\ variant \in Variants
    /\ is_daily \in BOOLEAN
    /\ variant # "inv" => ~is_daily
    /\ schema_config \in SUBSET TableNames
    /\ srcTables \in SUBSET TableNames
    /\ srcViews \in {v \in SUBSET (TableNames \ srcTables) : Cardinality(v) <= MaxViews}
    /\ files = {}
    /\ InitRun

\* tables = get_mysql_tables(), the connection and the query succeeding.
Discover ==
    /\ pc = "discover"
    /\ \E result \in Orders(ShowFullTables("BASE TABLE")) :
          tables' = get_mysql_tables(result)
    /\ ops' = Append(ops, Ev("show_tables", "", ""))
    /\ pc' = IF Len(tables') = 0 THEN "cleanup" ELSE "extract"
    /\ UNCHANGED <<Config, now, idx, df, warehouse, files, extracts, sweeps>>

\* get_mysql_tables raises (the store cannot be reached).
DiscoverFail ==
    /\ pc = "discover"
    /\ pc' = "failed"
    /\ UNCHANGED <<Config, now, tables, idx, df, warehouse, files, ops, extracts, sweeps>>

\* df = extract_from_mysql(table_name, ...), then the branch on df.empty.
Extract ==
    /\ pc = "extract"
    /\ LET t == tables[idx]
       IN /\ t \in srcTables \cup srcViews
          /\ \E data \in SourceData :
                /\ df' = extract_from_mysql(t, data)
                /\ extracts' = Append(extracts,
                        [table |-> t, at |-> now, query |-> Query(t), data |-> data,
                         dates |-> Select(Query(t), data), rows |-> NumRows(df')])
          /\ ops' = Append(ops, Ev("query", t, Query(t).cmp))
    /\ IF ShouldLoad(df')
       THEN pc' = "transform" /\ idx' = idx
       ELSE pc' = AfterTable /\ idx' = AfterTableIdx
    /\ UNCHANGED <<Config, now, tables, warehouse, files, sweeps>>

\* pd.read_sql raises: the table does not exist, or the store fails.
ExtractFail ==
    /\ pc = "extract"
    /\ ops' = Append(ops, Ev("query", tables[idx], Query(tables[idx]).cmp))
    /\ pc' = "failed"
    /\ UNCHANGED <<Config, now, tables, idx, df, warehouse, files, extracts, sweeps>>

\* df = transform_data(df, table_name)
Transform ==
    /\ pc = "transform"
    /\ LET r == transform_data(df, tables[idx])
       IN /\ ~r.raised
          /\ df' = r.df
    /\ ops' = Append(ops, Ev("transform", tables[idx], ""))
    /\ pc' = "load"
    /\ UNCHANGED <<Config, now, tables, idx, warehouse, files, extracts, sweeps>>

\* transform_data raises (its except clause logs and re-raises).
TransformFail ==
    /\ pc = "transform"
    /\ ops' = Append(ops, Ev("transform", tables[idx], "error"))
    /\ pc' = "failed"
    /\ UNCHANGED <<Config, now, tables, idx, df, warehouse, files, extracts, sweeps>>

\* run_etl swallowing the loader's exception and going on to the next table.
LoadSwallowsError ==
    /\ pc = "load"
    /\ \E outcome \in LoadOutcomes :
          LET r == load_to_bigquery(df, tables[idx], outcome)
          IN /\ files' = r.files
             /\ warehouse' = r.warehouse
             /\ ops' = ops \o r.events
    /\ pc' = AfterTable
    /\ idx' = AfterTableIdx
    /\ UNCHANGED <<Config, now, tables, df, extracts, sweeps>>

\* load_to_bigquery(df, table_name, ...), then on to the next table.
Load ==
    /\ pc = "load"
    /\ \E outcome \in LoadOutcomes :
          LET r == load_to_bigquery(df, tables[idx], outcome)
          IN /\ files' = r.files
             /\ warehouse' = r.warehouse
             /\ ops' = ops \o r.events
             /\ IF r.raised
                THEN pc' = "failed" /\ idx' = idx
                ELSE pc' = AfterTable /\ idx' = AfterTableIdx
    /\ UNCHANGED <<Config, now, tables, df, extracts, sweeps>>

\* cleanup_old_files(), after the table loop.
Cleanup ==
    /\ pc = "cleanup"
    /\ \E json_files \in Orders(Glob(files, "dumps", "json")) :
          LET r == cleanup_old_files(json_files)
          IN /\ files' = r.files
             /\ sweeps' = Append(sweeps, [at |-> now, before |-> files,
                                          listed |-> json_files, error |-> r.error])
    /\ ops' = Append(ops, Ev("sweep", "", ""))
    /\ pc' = "done"
    /\ UNCHANGED <<Config, now, tables, idx, df, warehouse, extracts>>

\* Midnight passes while the run is under way.
Tick ==
    /\ pc \notin {"done", "failed"}
    /\ now < StartDay + MaxTicks
    /\ now' = now + 1
    /\ UNCHANGED <<Config, pc, tables, idx, df, warehouse, files, ops, extracts, sweeps>>

Next ==
    \/ Discover
    \/ DiscoverFail
    \/ Extract
    \/ ExtractFail
    \/ Transform
    \/ TransformFail
    \/ Load
    \/ Cleanup
    \/ Tick

Spec == Init /\ [][Next]_vars

----------------------------------------------------------------------------
(* The janitor on its own: a run whose discovery found no table, over the  *)
(* staging directories in every small configuration.                       *)

\* The paths that may exist when the sweep starts.
SweepPaths ==
    << <<"dumps", <<"a", 0, "">>, FALSE, "json">>,
       <<"dumps", <<"b", 0, "">>, FALSE, "json">>,
       <<"dumps", <<"c", 0, "">>, FALSE, "sql">>,
       <<"dumps", <<"d", 0, "">>, TRUE, "json">>,
       <<"tmp", <<"mysql_to_bq", 0, "daily_log">>, FALSE, "json">> >>

\* Modification times a day either side of the retention threshold.
MTimes == {StartDay - RetentionDays - 1, StartDay - RetentionDays}

Absent == [present |-> FALSE, mtime |-> 0, locked |-> FALSE]

FileOptions == {Absent} \cup [present : {TRUE}, mtime : MTimes, locked : BOOLEAN]

FilesOf(ch) ==
    {File(SweepPaths[i][1], SweepPaths[i][2], SweepPaths[i][3], SweepPaths[i][4],
          ch[i].mtime, ch[i].locked) : i \in {j \in DOMAIN SweepPaths : ch[j].present}}

InitSweep ==
    /\ variant \in {"mysql", "inv"}
    /\ is_daily = FALSE
    /\ schema_config = {}
    /\ srcTables = {}
    /\ srcViews = {}
    /\ \E ch \in [DOMAIN SweepPaths -> FileOptions] : files = FilesOf(ch)
    /\ now = StartDay
    /\ run_date = StartDay
    /\ pc = "cleanup"
    /\ tables = <<>>
    /\ idx = 1
    /\ df = <<>>
    /\ warehouse = [t \in TableNames |-> PriorRows]
    /\ ops = << Ev("show_tables", "", "") >>
    /\ extracts = <<>>
    /\ sweeps = <<>>

NextSweep ==
    \/ Cleanup
    \/ Tick

SpecSweep == InitSweep /\ [][NextSweep]_vars

----------------------------------------------------------------------------
(* The transformer on its own: transform_data applied to every small batch *)
(* over the source column names and their renamed targets.                 *)

ColumnUniverse ==
    {"backup_date", "BackupDate", "size", "Size", "fileName", "FileName", "active"}

Values == {<<"int", 0>>, <<"int", 2>>, <<"bool", 1>>}

\* The one-row batches of 1 .. MaxCols distinct columns.
Batches ==
    UNION {{[i \in 1 .. n |-> Col(names[i], <<vals[i]>>)] :
                names \in {s \in [1 .. n -> ColumnUniverse] :
                              \A i, j \in 1 .. n : i # j => s[i] # s[j]},
                vals \in [1 .. n -> Values]} : n \in 1 .. MaxCols}

InitTransform ==
    /\ variant \in Variants
    /\ is_daily = FALSE
    /\ schema_config = TableNames
    /\ \E t \in TableNames :
          /\ variant = "hist" => t = "daily_log"
          /\ srcTables = {t}
          /\ tables = <<t>>
    /\ srcViews = {}
    /\ files = {}
    /\ now = StartDay
    /\ run_date = StartDay
    /\ pc = "transform"
    /\ idx = 1
    /\ df \in Batches
    /\ warehouse = [t \in TableNames |-> PriorRows]
    /\ ops = <<>>
    /\ extracts = <<>>
    /\ sweeps = <<>>

NextTransform == Transform

SpecTransform == InitTransform /\ [][NextTransform]_vars

----------------------------------------------------------------------------
(* Properties of the run *)

OpsFor(t, o) == {k \in DOMAIN ops : ops[k].table = t /\ ops[k].op = o}

OpsOf(o) == {k \in DOMAIN ops : ops[k].op = o}

PosOf(t) == CHOOSE i \in DOMAIN tables : tables[i] = t

\* The load job of table t has reported completion.
LoadCompleted(t) == \E k \in DOMAIN ops : ops[k] = Ev("await", t, "done")

HasArtifact(t) == \E f \in files : SamePath(f, Artifact(t))

\* C1: in every run of each of the three scripts, a table whose extraction
\* yields zero rows gets no staging artifact and no load call (no schema
\* lookup, artifact, job submission), and the run goes on without failure:
\* it stands at a later table, or past the last one at the sweep or the end.
C1_EmptyBatchSkipsLoad ==
    \A k \in DOMAIN extracts :
        extracts[k].rows = 0 =>
            LET t == extracts[k].table
            IN /\ \A j \in DOMAIN ops : ops[j].table = t => ops[j].op = "query"
               /\ ~HasArtifact(t)
               /\ warehouse[t] = PriorRows
               /\ \/ idx > PosOf(t)
                  \/ PosOf(t) = Len(tables) /\ pc \in {"cleanup", "done"}

\* A finished run that extracted nothing from one table and loaded a later one.
C1_Witness ==
    /\ pc = "done"
    /\ \E k \in DOMAIN extracts :
          /\ extracts[k].rows = 0
          /\ k < Len(extracts)
          /\ LoadCompleted(extracts[Len(extracts)].table)

\* A stage has raised: a query with no result, a call recorded as failed, or
\* a schema lookup for a table with no declared schema.
StageFailed ==
    \/ Cardinality(OpsOf("query")) # Len(extracts)
    \/ \E k \in DOMAIN ops :
          \/ ops[k].arg = "error"
          \/ ops[k].op = "schema" /\ ops[k].table \notin schema_config

\* C2: when extract, transform or load fails on table B, every table whose
\* load completed before B holds the rows it loaded, no call was made for any
\* table after B, no stage of B was attempted twice, and the run stands
\* failed for good: no further step (no rollback, no retry, no later table)
\* is possible.
C2_FailFastKeepsEarlierLoads ==
    /\ StageFailed => pc = "failed" /\ idx \in DOMAIN tables /\ ops[Len(ops)].table = tables[idx]
    /\ (pc = "failed" /\ idx \in DOMAIN tables) =>
        LET b == tables[idx]
        IN /\ \A j \in 1 .. idx - 1 :
                LoadCompleted(tables[j]) =>
                    \E k \in DOMAIN extracts, s \in OpsFor(tables[j], "submit") :
                        /\ extracts[k].table = tables[j]
                        /\ Len(warehouse[tables[j]]) =
                              extracts[k].rows + (IF ops[s].arg = "WRITE_APPEND" THEN 1 ELSE 0)
                        /\ \A d \in extracts[k].dates :
                              \E i \in DOMAIN warehouse[tables[j]] :
                                  warehouse[tables[j]][i][1] = <<"str", d>>
           /\ \A j \in idx + 1 .. Len(tables) : \A k \in DOMAIN ops : ops[k].table # tables[j]
           /\ \A o \in {"query", "transform", "schema", "artifact", "submit", "await"} :
                Cardinality(OpsFor(b, o)) <= 1
           /\ ~ENABLED Next

\* A run of three tables that loaded the first and failed on the second.
C2_Witness ==
    /\ pc = "failed"
    /\ Len(tables) = 3
    /\ idx = 2
    /\ LoadCompleted(tables[1])
    /\ ops[Len(ops)] = Ev("await", tables[2], "error")

\* C3: every extraction query and every warehouse call for a table comes
\* after the schema lookup for that table, so a table with no declared schema
\* is never queried.
C3_SchemaLookupBeforeQuery ==
    \A k \in DOMAIN ops :
        ops[k].op \in {"query", "artifact", "submit"} =>
            /\ ops[k].table \in schema_config
            /\ \E j \in 1 .. k - 1 : ops[j] = Ev("schema", ops[k].table, "")

\* C4 as stated: every discovered table is a base table of the source store
\* and a key of the schema registry.
C4_DiscoveredHaveSchema ==
    (variant # "hist" /\ OpsOf("show_tables") # {}) =>
        \A t \in Range(tables) : t \in srcTables /\ t \in schema_config

\* C4 amended: every discovered table is a base table of the source store
\* and a member of the script's allowed set (the schema registry's keys in
\* etl_mysql_to_bigquery.py, the fixed three names in
\* ti_db_inventory_to_BQ.py); every base table in that set is discovered; and
\* discovery itself is possible whatever tables lack a schema.
C4_DiscoveredAreAllowedBaseTables ==
    /\ (variant # "hist" /\ OpsOf("show_tables") # {}) =>
          /\ \A t \in Range(tables) :
                /\ t \in srcTables
                /\ variant = "mysql" => t \in schema_config
                /\ variant = "inv" => t \in {"backup_log", "daily_log", "servers_temp"}
          /\ \A t \in srcTables :
                /\ (variant = "mysql" /\ t \in schema_config) => t \in Range(tables)
                /\ (variant = "inv" /\ t \in {"backup_log", "daily_log", "servers_temp"}) =>
                      t \in Range(tables)
    /\ pc = "discover" => ENABLED Discover

\* Discovery that left out a view and a base table outside the allowed set,
\* and returned a table with no declared schema.
C4_Witness ==
    /\ variant = "inv"
    /\ OpsOf("show_tables") # {}
    /\ \E t \in Range(tables) : t \notin schema_config
    /\ \E t \in srcTables : t \notin Range(tables)
    /\ \E t \in srcViews : t \in schema_config /\ t \notin Range(tables)

\* C5 as stated: in every script, a run that processed all its tables swept
\* exactly once, after the last table; a failed run swept zero times.
C5_SweepOncePerRun ==
    /\ pc = "done" => Cardinality(OpsOf("sweep")) = 1 /\ ops[Len(ops)].op = "sweep"
    /\ pc = "failed" => OpsOf("sweep") = {}

\* C5 amended: in etl_mysql_to_bigquery.py and ti_db_inventory_to_BQ.py a run
\* that processed all its tables swept exactly once, after the last table;
\* a failed run swept zero times; etl_daily_log.py never sweeps.
C5_SweepOncePerRunWhereDefined ==
    /\ (pc = "done" /\ variant \in {"mysql", "inv"}) =>
          /\ Cardinality(OpsOf("sweep")) = 1
          /\ ops[Len(ops)].op = "sweep"
          /\ Len(sweeps) = 1
    /\ pc = "failed" => OpsOf("sweep") = {} /\ sweeps = <<>>
    /\ variant = "hist" => OpsOf("sweep") = {} /\ sweeps = <<>>
    /\ pc \notin {"done", "failed"} => OpsOf("sweep") = {}

\* A run over two tables that loaded the last one and then swept.
C5_Witness ==
    /\ pc = "done"
    /\ Len(tables) = 2
    /\ Len(ops) > 2
    /\ ops[Len(ops)].op = "sweep"
    /\ ops[Len(ops) - 1] = Ev("count", tables[2], "ok")

----------------------------------------------------------------------------
(* Properties of the staging sweep (SpecSweep) *)

\* C6: when one os.remove fails during a sweep, every other file the sweep
\* listed that is more than 7 days old is deleted by that sweep, and the
\* sweep returns to run_etl, which ends normally.
C6_SweepSurvivesFailedDelete ==
    \A k \in DOMAIN sweeps :
        sweeps[k].error =>
            /\ pc = "done"
            /\ \A f \in Range(sweeps[k].listed) :
                  (sweeps[k].at - f.mtime > RetentionDays /\ ~f.locked) => f \notin files

\* C7 as stated: a sweep deletes only files of the swept directory that are
\* more than 7 days old, leaves every file of 7 days or less as it was, and,
\* when no deletion failed, leaves no file older than 7 days in the directory.
C7_SweepDeletesExactlyTheOld ==
    \A k \in DOMAIN sweeps :
        LET s == sweeps[k]
        IN /\ \A f \in s.before \ files : f.dir = "dumps" /\ s.at - f.mtime > RetentionDays
           /\ \A f \in s.before : s.at - f.mtime <= RetentionDays => f \in files
           /\ files \subseteq s.before
           /\ ~s.error =>
                 \A f \in s.before : (f.dir = "dumps" /\ s.at - f.mtime > RetentionDays) => f \notin files

\* The files glob lists for "*.json" in the dumps directory.
ListedJson(f) == f.dir = "dumps" /\ f.ext = "json" /\ ~f.dot

\* C7 amended: a sweep deletes only files of the dumps directory that match
\* *.json (the extension .json, no leading dot) and are more than 7 days old;
\* every other file (7 days old or less, not matching *.json, or in another
\* directory) is left as it was; and, when nothing failed during the sweep,
\* every matching file older than 7 days is gone.
C7_SweepDeletesExactlyTheOldJson ==
    \A k \in DOMAIN sweeps :
        LET s == sweeps[k]
        IN /\ \A f \in s.before \ files : ListedJson(f) /\ s.at - f.mtime > RetentionDays
           /\ \A f \in s.before :
                 (~ListedJson(f) \/ s.at - f.mtime <= RetentionDays) => f \in files
           /\ files \subseteq s.before
           /\ ~s.error =>
                 \A f \in s.before : (ListedJson(f) /\ s.at - f.mtime > RetentionDays) => f \notin files

\* A sweep without error that deleted an old *.json file and kept a *.json
\* file of exactly 7 days, an old file of another extension and an old
\* dot-file.
C7_Witness ==
    /\ Len(sweeps) = 1
    /\ ~sweeps[1].error
    /\ \E f \in sweeps[1].before \ files : ListedJson(f)
    /\ \E f \in files : ListedJson(f) /\ sweeps[1].at - f.mtime = RetentionDays
    /\ \E f \in files : f.ext = "sql" /\ sweeps[1].at - f.mtime > RetentionDays
    /\ \E f \in files : f.dot /\ sweeps[1].at - f.mtime > RetentionDays

----------------------------------------------------------------------------
(* Properties of extraction and loading (Spec) *)

\* C8 as stated: the batch extracted from every table is the rows before the
\* cutoff date in the historical script, the rows of yesterday in a --daily
\* run, and the rows of today in the incremental script.
C8_WindowByModeAlone ==
    \A k \in DOMAIN extracts :
        LET e == extracts[k]
        IN /\ variant = "hist" => e.dates = {d \in e.data : d < CutoffDate}
           /\ (variant = "inv" /\ is_daily) => e.dates = {d \in e.data : d = e.at - 1}
           /\ variant = "mysql" => e.dates = {d \in e.data : d = e.at}

\* C8 amended: the batch is the rows before 2025-03-07 in the historical
\* script; the rows of today (the day of the extract call) for every table
\* in the incremental script; in a --daily run the rows of yesterday for
\* backup_log and daily_log, and all rows, with no predicate, for every other
\* table.
C8_WindowByModeAndTable ==
    \A k \in DOMAIN extracts :
        LET e == extracts[k]
        IN /\ variant = "hist" => e.dates = {d \in e.data : d < CutoffDate}
           /\ (variant = "inv" /\ is_daily /\ e.table \in {"backup_log", "daily_log"}) =>
                 e.dates = {d \in e.data : d = e.at - 1}
           /\ (variant = "inv" /\ is_daily /\ e.table \notin {"backup_log", "daily_log"}) =>
                 e.dates = e.data /\ e.query.cmp = "none"
           /\ variant = "mysql" => e.dates = {d \in e.data : d = e.at}
           /\ e.rows = Cardinality(e.dates)

\* A --daily run, after midnight passed, that extracted yesterday's row from
\* daily_log and every row from servers_temp.
C8_Witness ==
    /\ variant = "inv"
    /\ is_daily
    /\ \E j, k \in DOMAIN extracts :
          /\ extracts[j].table = "daily_log"
          /\ extracts[j].data = RowDates
          /\ extracts[j].at = StartDay + 1
          /\ extracts[j].dates = {StartDay}
          /\ extracts[k].table = "servers_temp"
          /\ extracts[k].dates = RowDates

\* C9: every load job submitted in a daily (--daily) or incremental run has
\* write disposition WRITE_APPEND, every load job submitted in a historical
\* or full run has WRITE_TRUNCATE, whatever the table; and the warehouse
\* table of a completed job holds its earlier rows exactly when appended to.
C9_DispositionByMode ==
    /\ \A k \in OpsOf("submit") :
          ops[k].arg = IF variant = "mysql" \/ (variant = "inv" /\ is_daily)
                       THEN "WRITE_APPEND" ELSE "WRITE_TRUNCATE"
    /\ \A t \in TableNames :
          LoadCompleted(t) =>
              (warehouse[t][1] = PriorRows[1]) = (variant = "mysql" \/ (variant = "inv" /\ is_daily))

\* A full (non-daily) run of ti_db_inventory_to_BQ.py that completed the load
\* jobs of two tables.
C9_Witness ==
    /\ variant = "inv"
    /\ ~is_daily
    /\ \E t, u \in TableNames : t # u /\ LoadCompleted(t) /\ LoadCompleted(u)

----------------------------------------------------------------------------
(* Properties of the transformer (SpecTransform) *)

\* C10: transform_data applied to its own output returns that output, with
\* the same columns and values, for every table and every batch over the
\* source column names and their renamed targets; and no application
\* raises because a column to rename or drop is absent.
C10_TransformIdempotent ==
    /\ pc = "transform" => ENABLED Transform
    /\ pc = "load" =>
          /\ ~transform_data(df, tables[idx]).raised
          /\ transform_data(df, tables[idx]).df = df

\* A transformed daily_log batch whose columns size and Size both became
\* Size.
C10_Witness ==
    /\ pc = "load"
    /\ tables[idx] = "daily_log"
    /\ ops = << Ev("transform", "daily_log", "") >>
    /\ Len(df) = 2
    /\ df[1].name = "Size"
    /\ df[2].name = "Size"

----------------------------------------------------------------------------
(* Two runs of a script, the second started by the scheduler a week or     *)
(* more after the first ended, over the filesystem the first left behind.  *)

\* How long after the first run's end the second starts, in days.
RestartGaps == {RetentionDays, RetentionDays + 1}

\* The process is started again: module-level state is rebuilt, CURRENT_DATE
\* is the new day, the warehouse and the files are as the first run left them.
Restart ==
    /\ pc \in {"done", "failed"}
    /\ run_date = StartDay
    /\ \E gap \in RestartGaps : now' = now + gap
    /\ run_date' = now'
    /\ pc' = IF variant = "hist" THEN "extract" ELSE "discover"
    /\ tables' = IF variant = "hist" THEN <<"daily_log">> ELSE <<>>
    /\ idx' = 1
    /\ df' = <<>>
    /\ ops' = <<>>
    /\ extracts' = <<>>
    /\ sweeps' = <<>>
    /\ UNCHANGED <<variant, is_daily, schema_config, srcTables, srcViews, warehouse, files>>

InitCron ==
    /\ variant \in Variants
    /\ is_daily \in BOOLEAN
    /\ variant # "inv" => ~is_daily
    /\ schema_config = TableNames
    /\ srcTables \in {{"daily_log"}, {"backup_log", "daily_log"}}
    /\ srcViews = {}
    /\ files = {}
    /\ InitRun

NextCron ==
    \/ Next
    \/ Restart

SpecCron == InitCron /\ [][NextCron]_vars

\* C11: a staging artifact left on disk by a failed load is reaped by the
\* sweep of the next successful run once it is more than 7 days old: after a
\* sweep that met no error, no file the loader wrote that was more than 7
\* days old when the sweep started is still on disk.  (Under SpecCron the
\* filesystem starts empty, so every file is one the loader wrote.)
C11_OrphanedArtifactsReaped ==
    \A k \in DOMAIN sweeps :
        ~sweeps[k].error =>
            \A f \in sweeps[k].before :
                sweeps[k].at - f.mtime > RetentionDays => f \notin files

----------------------------------------------------------------------------
(* Properties of one load_to_bigquery call (Spec) *)

\* The steps of a load on a non-empty batch, in the order of the claim.
LoadSteps == <<"artifact", "submit", "await", "remove", "count">>

\* The steps recorded for table t, in the order they were taken.
LoadOpsOf(t) == SelectSeq(ops, LAMBDA e : e.table = t /\ e.op \in Range(LoadSteps))

\* C12: the steps of one load_to_bigquery call on a non-empty batch are
\* taken in the order artifact created, job submitted, completion awaited,
\* artifact deleted, row count read, each at most once; the artifact is
\* deleted only after the job reported completion without error; when the
\* call returns successfully its artifact is not on disk; and when the job
\* fails the artifact is on disk as the error propagates and the run fails.
C12_LoadStepsInOrder ==
    \A t \in TableNames :
        LET es == LoadOpsOf(t)
        IN /\ Len(es) <= Len(LoadSteps)
           /\ \A i \in DOMAIN es : es[i].op = LoadSteps[i]
           /\ es # <<>> => \E k \in DOMAIN extracts : extracts[k].table = t /\ extracts[k].rows > 0
           /\ Len(es) >= 4 => es[3] = Ev("await", t, "done")
           /\ (\E k \in DOMAIN ops : ops[k] = Ev("count", t, "ok")) => ~HasArtifact(t)
           /\ (\E k \in DOMAIN ops : ops[k] = Ev("await", t, "error")) =>
                 /\ HasArtifact(t)
                 /\ pc = "failed"
                 /\ ops[Len(ops)] = Ev("await", t, "error")

\* A load that took all five steps on a batch of several rows, returned and
\* left no artifact on disk.
C12_Witness ==
    \E t \in TableNames :
        /\ Len(LoadOpsOf(t)) = 5
        /\ LoadOpsOf(t)[5] = Ev("count", t, "ok")
        /\ ~HasArtifact(t)
        /\ \E k \in DOMAIN extracts : extracts[k].table = t /\ extracts[k].rows > 1

====
